---- MODULE Spec2Model ----
(***************************************************************************)
(* A model of the AirAI asset ingestion pipeline: the Dispatcher           *)
(* (triggerS3.py), the Metadata Extractor (updateMetadata.py) and the      *)
(* Status Tracker (updateStatus.py), with the external stores they talk to *)
(* (the key-value table, the orchestrator, object storage, the relational  *)
(* table) modelled by what the handlers can observe of them.               *)
(***************************************************************************)
EXTENDS Integers, Sequences, FiniteSets, TLC

VARIABLES
    now,        \* the wall clock the handlers read (utcnow / time.time / CURRENT_TIMESTAMP)
    env,        \* the environment variables that are set in the deployment
    table,      \* Status Tracker: the items of the DynamoDB table
    st,         \* Status Tracker: the state of each invocation of lambda_handler
    executions, \* Dispatcher: the executions the orchestrator has started
    dp,         \* Dispatcher: the state of the running lambda_handler
    delivered,  \* Dispatcher: the number of records delivered so far
    s3store,    \* Metadata Extractor: the object each storage location holds
    overwrites, \* Metadata Extractor: the number of objects overwritten so far
    assets,     \* Metadata Extractor: the rows of the assets table
    mx,         \* Metadata Extractor: the state of each Lambda process
    extractions \* Metadata Extractor: the number of invocations so far

statusVars == <<table, st>>
dispatchVars == <<executions, dp, delivered>>
metaVars == <<s3store, overwrites, assets, mx, extractions>>
vars == <<now, env, table, st, executions, dp, delivered,
          s3store, overwrites, assets, mx, extractions>>

----------------------------------------------------------------------------
(* Bounds of the model.                                                    *)

MaxTime == 3
NumStatusInvocations == 2
MaxRecords == 3
MaxExtractions == 2
MaxOverwrites == 1
MaxFilterBatch == 2

----------------------------------------------------------------------------
(* Python values.                                                          *)

\* dict.get(k) of a key the dict lacks.
None == "<None>"

\* d.get(k, default)
Get(d, k, default) == IF k \in DOMAIN d THEN d[k] ELSE default

\* bool(v) is False: None and the empty string (the values an input field takes here).
Falsy(v) == v = None \/ v = ""

Restrict(f, D) == [k \in D |-> f[k]]

\* s.startswith(p), s.endswith(x), x in s
StartsWith(s, p) == Len(p) <= Len(s) /\ SubSeq(s, 1, Len(p)) = p

EndsWith(s, x) == Len(x) <= Len(s) /\ SubSeq(s, Len(s) - Len(x) + 1, Len(s)) = x

Contains(s, x) == \E i \in 1..(Len(s) - Len(x) + 1) : SubSeq(s, i, i + Len(x) - 1) = x

\* s.split(sep) for a one-character sep: the segments between the separators.
RECURSIVE SplitFrom(_, _, _)
SplitFrom(s, sep, cur) ==
    IF s = "" THEN <<cur>>
    ELSE IF Head(s) = sep THEN <<cur>> \o SplitFrom(Tail(s), sep, "")
    ELSE SplitFrom(Tail(s), sep, cur \o Head(s))

Split(s, sep) == SplitFrom(s, sep, "")

\* str(n) of a natural number: its decimal digits.
Digit(d) == SubSeq("0123456789", d + 1, d + 1)

RECURSIVE ToDigits(_)
ToDigits(n) == IF n < 10 THEN Digit(n) ELSE ToDigits(n \div 10) \o Digit(n % 10)

\* The percent escapes the keys of the model use, and the characters they stand for.
PercentDecoded ==
    [e \in {"%2F", "%2E", "%20", "%2B"} |->
        CASE e = "%2F" -> "/" [] e = "%2E" -> "." [] e = "%20" -> " " [] OTHER -> "+"]

\* urllib.parse.unquote_plus: '+' becomes a space, a percent escape becomes its
\* character, anything else (an escape that is not one included) is kept.
RECURSIVE UnquotePlus(_)
UnquotePlus(s) ==
    IF s = "" THEN ""
    ELSE IF Head(s) = "+" THEN " " \o UnquotePlus(Tail(s))
    ELSE IF Len(s) >= 3 /\ SubSeq(s, 1, 3) \in DOMAIN PercentDecoded
         THEN PercentDecoded[SubSeq(s, 1, 3)] \o UnquotePlus(SubSeq(s, 4, Len(s)))
    ELSE Head(s) \o UnquotePlus(Tail(s))

\* A reading of the clock: it never runs backwards, and two readings may agree.
ClockReadings == {t \in now..(now + 1) : t <= MaxTime}

EnvNames == {"PROCESSING_STATUS_TABLE", "STEP_FUNCTION_ARN"}

----------------------------------------------------------------------------
(* Status Tracker: updateStatus.py                                         *)

StatusInvocations == 1..NumStatusInvocations

StatusFields == {"assetId", "featureType", "status", "statusDetails"}

StatusFullEvents ==
    {[assetId |-> "a1", featureType |-> "thumbnail", status |-> "PENDING", statusDetails |-> "d1"],
     [assetId |-> "a1", featureType |-> "thumbnail", status |-> "COMPLETE", statusDetails |-> "d2"],
     [assetId |-> "a1", featureType |-> "labels", status |-> "PENDING", statusDetails |-> "d1"],
     [assetId |-> "a2", featureType |-> "thumbnail", status |-> "COMPLETE", statusDetails |-> "d1"],
     [assetId |-> "a1", featureType |-> "thumbnail", status |-> "", statusDetails |-> "d1"],
     [assetId |-> "", featureType |-> "labels", status |-> "PENDING", statusDetails |-> "d1"]}

\* The events an invocation may receive: complete, or with one field missing
\* (the last two carry an empty status and an empty assetId).
StatusEvents ==
    {Restrict(e, StatusFields \ D) : e \in StatusFullEvents,
                                     D \in {{}} \cup {{k} : k \in StatusFields}}

\* The primary key of the table: (assetId, featureType).
SameKey(i, a, f) == i.assetId = a /\ i.featureType = f

ItemsOf(tbl, a, f) == {i \in tbl : SameKey(i, a, f)}

\* put_item on a table keyed by assetId alone (a plausible slip in the table's
\* key schema): the item replaces every item of the asset.
PutItemKeyedByAsset(tbl, item) ==
    {i \in tbl : i.assetId # item.assetId} \cup {item}

\* table.put_item(Item=item): the item replaces whatever the key held.
PutItem(tbl, item) ==
    (tbl \ ItemsOf(tbl, item.assetId, item.featureType)) \cup {item}

\* The item update_item(... SET #status, statusDetails, updatedAt ...) leaves at
\* the key; an absent item is created with the key and the SET attributes only.
UpdatedItem(tbl, a, f, status, details, ts) ==
    IF ItemsOf(tbl, a, f) = {}
    THEN [assetId |-> a, featureType |-> f, status |-> status,
          statusDetails |-> details, updatedAt |-> ts]
    ELSE LET old == CHOOSE i \in ItemsOf(tbl, a, f) : TRUE
         IN  [old EXCEPT !.status = status, !.statusDetails = details,
                         !.updatedAt = ts]

UpdateItem(tbl, a, f, status, details, ts) ==
    (tbl \ ItemsOf(tbl, a, f)) \cup {UpdatedItem(tbl, a, f, status, details, ts)}

\* Lines 28-29 with one check dropped (a plausible slip).
MissingRequiredNoStatus(ev) ==
    Falsy(Get(ev, "assetId", None)) \/ Falsy(Get(ev, "featureType", None))

\* Lines 23-29: not asset_id or not feature_type or not status
MissingRequired(ev) ==
    \/ Falsy(Get(ev, "assetId", None))
    \/ Falsy(Get(ev, "featureType", None))
    \/ Falsy(Get(ev, "status", None))

StatusIdle ==
    [pc |-> "idle", event |-> <<>>, asset_id |-> None, feature_type |-> None,
     status |-> None, status_details |-> None, timestamp |-> 0,
     item_exists |-> FALSE, calls |-> <<>>, result |-> [kind |-> "none"]]

Raised(s, err) == [s EXCEPT !.pc = "failed", !.result = [kind |-> "raise", error |-> err]]

StatusInit ==
    /\ table = {}
    /\ st = [p \in StatusInvocations |-> StatusIdle]

\* Lines 20-40: read the event, validate it, look the table name up, take the
\* timestamp.  Invocations are numbered in the order they arrive.
StatusInvoke(p) ==
    /\ st[p].pc = "idle"
    /\ \A q \in StatusInvocations : q < p => st[q].pc # "idle"
    /\ \E ev \in StatusEvents :
       LET s == [st[p] EXCEPT !.event = ev,
                              !.asset_id = Get(ev, "assetId", None),
                              !.feature_type = Get(ev, "featureType", None),
                              !.status = Get(ev, "status", None),
                              !.status_details = Get(ev, "statusDetails", "{}")]
       IN  IF MissingRequired(ev)
           THEN /\ st' = [st EXCEPT ![p] = Raised(s, "ValueError")]
                /\ UNCHANGED now
           ELSE IF "PROCESSING_STATUS_TABLE" \notin env
           THEN /\ st' = [st EXCEPT ![p] = Raised(s, "KeyError")]
                /\ UNCHANGED now
           ELSE \E t \in ClockReadings :
                    /\ now' = t
                    /\ st' = [st EXCEPT ![p] = [s EXCEPT !.pc = "get_item",
                                                         !.timestamp = t]]
    /\ UNCHANGED <<env, table, dispatchVars, metaVars>>

\* Lines 42-54: the existence read.  A ClientError is logged and read as "no
\* item"; any other exception leaves the inner try and is re-raised at line 102.
StatusGetItem(p) ==
    /\ st[p].pc = "get_item"
    /\ \E outcome \in {"ok", "ClientError", "OtherError"} :
         LET s == [st[p] EXCEPT
                      !.calls = Append(@, [op |-> "get_item", outcome |-> outcome])]
         IN  st' = [st EXCEPT ![p] =
                CASE outcome = "ok" ->
                       [s EXCEPT !.pc = "write",
                                 !.item_exists =
                                     (ItemsOf(table, s.asset_id, s.feature_type) # {})]
                  [] outcome = "ClientError" ->
                       [s EXCEPT !.pc = "write", !.item_exists = FALSE]
                  [] OTHER -> Raised(s, outcome)]
    /\ UNCHANGED <<now, env, table, dispatchVars, metaVars>>

\* Lines 92-99: the payload returned, from the written item.
StatusPayload(s, updated_item) ==
    [assetId |-> s.asset_id, featureType |-> s.feature_type,
     status |-> s.status, statusDetails |-> s.status_details,
     updatedAt |-> s.timestamp,
     createdAt |-> Get(updated_item, "createdAt", s.timestamp)]

\* Lines 78-85: the item of the create branch.
NewItem(s) ==
    [assetId |-> s.asset_id, featureType |-> s.feature_type, status |-> s.status,
     statusDetails |-> s.status_details, createdAt |-> s.timestamp,
     updatedAt |-> s.timestamp]

\* Lines 56-102: update_item when the read saw an item, put_item otherwise, then
\* the return; a failed write is re-raised.
StatusWrite(p) ==
    /\ st[p].pc = "write"
    /\ LET s == st[p]
           op == IF s.item_exists THEN "update_item" ELSE "put_item"
           attrs == UpdatedItem(table, s.asset_id, s.feature_type, s.status,
                                s.status_details, s.timestamp)
       IN  \E outcome \in {"ok", "ClientError"} :
             LET s1 == [s EXCEPT !.calls = Append(@, [op |-> op, outcome |-> outcome])]
                 returned(item) ==
                     [s1 EXCEPT !.pc = "done",
                                !.result = [kind |-> "return",
                                            payload |-> StatusPayload(s, item)]]
             IN  IF outcome # "ok"
                 THEN /\ st' = [st EXCEPT ![p] = Raised(s1, outcome)]
                      /\ UNCHANGED table
                 ELSE IF s.item_exists
                 THEN /\ table' = UpdateItem(table, s.asset_id, s.feature_type,
                                             s.status, s.status_details, s.timestamp)
                      /\ st' = [st EXCEPT ![p] = returned(attrs)]
                 ELSE /\ table' = PutItem(table, NewItem(s))
                      /\ st' = [st EXCEPT ![p] = returned(NewItem(s))]
    /\ UNCHANGED <<now, env, dispatchVars, metaVars>>

StatusNext ==
    \E p \in StatusInvocations :
        \/ StatusInvoke(p)
        \/ StatusGetItem(p)
        \/ StatusWrite(p)

\* One invocation at a time: the next arrives when the last has ended.
StatusQuiet == \A q \in StatusInvocations : st[q].pc \in {"idle", "done", "failed"}

StatusSeqNext ==
    \E p \in StatusInvocations :
        \/ StatusQuiet /\ StatusInvoke(p)
        \/ StatusGetItem(p)
        \/ StatusWrite(p)

----------------------------------------------------------------------------
(* Dispatcher: triggerS3.py                                                *)

S3Of(b, k) == [bucket |-> [name |-> b], object |-> [key |-> k]]

\* The notifications a batch may carry: two the filter accepts (the second with
\* an encoded key), two it rejects by key, one from another source (with no
\* eventTime and no s3 field), one of another event type, one without the s3
\* field.
DispatchRecords ==
    {[eventSource |-> "aws:s3", eventName |-> "ObjectCreated:Put", eventTime |-> "t1",
      s3 |-> S3Of("b1", "uploads/photo.jpg")],
     [eventSource |-> "aws:s3", eventName |-> "ObjectCreated:Copy", eventTime |-> "t2",
      s3 |-> S3Of("b2", "my+docs%2Fa.pdf")],
     [eventSource |-> "aws:s3", eventName |-> "ObjectCreated:Put", eventTime |-> "t3",
      s3 |-> S3Of("b1", ".DS_Store")],
     [eventSource |-> "aws:s3", eventName |-> "ObjectCreated:Put", eventTime |-> "t4",
      s3 |-> S3Of("b1", "processed/x.png")],
     [eventSource |-> "aws:sns", eventName |-> "Notification"],
     [eventSource |-> "aws:s3", eventName |-> "ObjectRemoved:Delete", eventTime |-> "t5",
      s3 |-> S3Of("b1", "uploads/photo.jpg")],
     [eventSource |-> "aws:s3", eventName |-> "ObjectCreated:Put", eventTime |-> "t6"]}

\* The batches of at most n records.
Batches(n) == UNION {[1..k -> DispatchRecords] : k \in 0..n}

\* uuid.uuid4().hex[:8]: the random suffixes the model draws from.
HexSuffixes == {"0a1b2c3d", "deadbeef"}

\* Lines 86-107 with the hidden-file test made on the whole key instead of on
\* each path segment (a plausible slip).
should_skip_processing_whole_key(key) ==
    \/ StartsWith(key, ".")
    \/ EndsWith(key, ".tmp") \/ EndsWith(key, ".temp")
    \/ EndsWith(key, ".DS_Store") \/ Contains(key, ".Thumbs.db")
    \/ \E ext \in {".lock", ".part", ".crdownload"} : EndsWith(key, ext)

\* Lines 86-107.
should_skip_processing(key) ==
    \/ LET parts == Split(key, "/")
       IN  \E k \in 1..Len(parts) : StartsWith(parts[k], ".")
    \/ EndsWith(key, ".tmp") \/ EndsWith(key, ".temp")
    \/ EndsWith(key, ".DS_Store") \/ Contains(key, ".Thumbs.db")
    \/ \E ext \in {".lock", ".part", ".crdownload"} : EndsWith(key, ext)

\* Line 28: the record is an S3 object-created event.
IsObjectCreated(record) ==
    /\ Get(record, "eventSource", None) = "aws:s3"
    /\ StartsWith(Get(record, "eventName", ""), "ObjectCreated")

\* Lines 33-34 raise KeyError when the record lacks s3, bucket/name or object/key.
HasS3Fields(record) ==
    /\ "s3" \in DOMAIN record
    /\ "bucket" \in DOMAIN record.s3 /\ "name" \in DOMAIN record.s3.bucket
    /\ "object" \in DOMAIN record.s3 /\ "key" \in DOMAIN record.s3.object

\* Lines 37-44: the two skips on the decoded key.
SkippedByKey(key) ==
    \/ StartsWith(key, "processed/") \/ StartsWith(key, "results/")
    \/ should_skip_processing(key)

\* Line 47: asset-<epoch milliseconds>-<8 hex characters>
DispatchAssetId(ms, hex) == "asset-" \o ToDigits(ms) \o "-" \o hex

\* Line 63: the execution name, which the orchestrator treats as the idempotency token.
ExecutionName(asset_id) == asset_id \o "-processing"

\* Lines 50-56.
StepFunctionsInput(asset_id, bucket, key, record) ==
    [assetId |-> asset_id, bucket |-> bucket, key |-> key,
     eventTime |-> Get(record, "eventTime", None), eventSource |-> "S3"]

\* The handle start_execution returns for an execution.
ExecutionArn(name) == "arn:execution:" \o name

Records(event) == Get(event, "Records", <<>>)

\* The events the handler may receive: a batch of at most n records, or an
\* event with no Records.
DispatchEvents(n) ==
    {[Records |-> b] : b \in Batches(n)} \cup {[detail |-> "no records"]}

DispatchIdle ==
    [pc |-> "idle", event |-> <<>>, i |-> 1, results |-> <<>>, log |-> <<>>,
     result |-> [kind |-> "none"]]

DispatchInit ==
    /\ executions = {}
    /\ dp = DispatchIdle
    /\ delivered = 0

\* A batch arrives (line 21-23); an event may also lack Records.
DispatchInvoke ==
    /\ dp.pc \in {"idle", "returned", "raised"}
    /\ \E event \in DispatchEvents(MaxRecords - delivered) :
         /\ delivered' = delivered + Len(Records(event))
         /\ dp' = [DispatchIdle EXCEPT !.pc = "loop", !.event = event]
    /\ UNCHANGED <<now, env, executions, statusVars, metaVars>>

\* The handler after a record that was skipped (lines 28-30, 37-44).
Skipped(d) ==
    [d EXCEPT !.i = @ + 1, !.log = Append(@, [outcome |-> "skipped"])]

\* The handler after a record whose execution request failed, with the request
\* loop broken off instead of continued (a plausible slip).
StartFailedAborts(d, asset_id, err) ==
    [d EXCEPT !.i = Len(Records(d.event)) + 1,
              !.log = Append(@, [outcome |-> "failed", assetId |-> asset_id,
                                 error |-> err])]

\* The handler after a record whose execution request failed (lines 75-76): the
\* error is logged and the loop goes on.
StartFailed(d, asset_id, err) ==
    [d EXCEPT !.i = @ + 1,
              !.log = Append(@, [outcome |-> "failed", assetId |-> asset_id,
                                 error |-> err])]

\* The handler after a record whose execution request succeeded (lines 67-74).
Started(d, asset_id, arn, bucket, key) ==
    [d EXCEPT !.i = @ + 1,
              !.results = Append(@, [assetId |-> asset_id, executionArn |-> arn,
                                     bucket |-> bucket, key |-> key]),
              !.log = Append(@, [outcome |-> "started", assetId |-> asset_id,
                                 executionArn |-> arn])]

\* Lines 46-76: an accepted record.  The identifier is minted from the clock
\* and a random suffix; the request fails when STEP_FUNCTION_ARN is not set,
\* when the orchestrator already holds the name with another input, or for a
\* reason of the orchestrator's own (throttling, an outage); a name it holds
\* with the same input gets the held execution's handle or is refused.
StartExecution(record, bucket, key) ==
    \E t \in ClockReadings, hex \in HexSuffixes :
        LET asset_id == DispatchAssetId(t, hex)
            name == ExecutionName(asset_id)
            input == StepFunctionsInput(asset_id, bucket, key, record)
            held == {e \in executions : e.name = name}
        IN  /\ now' = t
            /\ IF "STEP_FUNCTION_ARN" \notin env
               THEN /\ dp' = StartFailed(dp, asset_id, "KeyError")
                    /\ UNCHANGED executions
               ELSE \/ /\ held = {}
                       /\ executions' = executions \cup
                                          {[name |-> name, input |-> input]}
                       /\ dp' = Started(dp, asset_id, ExecutionArn(name), bucket, key)
                    \/ /\ \E e \in held : e.input = input
                       /\ UNCHANGED executions
                       /\ dp' = Started(dp, asset_id, ExecutionArn(name), bucket, key)
                    \/ /\ held # {}
                       /\ UNCHANGED executions
                       /\ dp' = StartFailed(dp, asset_id, "ExecutionAlreadyExists")
                    \/ /\ UNCHANGED executions
                       /\ dp' = StartFailed(dp, asset_id, "ClientError")

\* Lines 26-76: one pass of the loop, for the next record of the batch.  A
\* record that is not an S3 object-created event is skipped; one without the s3
\* fields ends the handler with KeyError (lines 33-34 are outside any try); one
\* whose decoded key is excluded is skipped; for any other an execution is
\* requested.
DispatchRecord ==
    /\ dp.pc = "loop" /\ dp.i <= Len(Records(dp.event))
    /\ LET record == Records(dp.event)[dp.i]
       IN  IF ~IsObjectCreated(record)
           THEN dp' = Skipped(dp) /\ UNCHANGED <<now, executions>>
           ELSE IF ~HasS3Fields(record)
           THEN /\ dp' = [dp EXCEPT !.pc = "raised",
                                    !.result = [kind |-> "raise", error |-> "KeyError"]]
                /\ UNCHANGED <<now, executions>>
           ELSE LET bucket == record.s3.bucket.name
                    key == UnquotePlus(record.s3.object.key)
                IN  IF SkippedByKey(key)
                    THEN dp' = Skipped(dp) /\ UNCHANGED <<now, executions>>
                    ELSE StartExecution(record, bucket, key)
    /\ UNCHANGED <<env, delivered, statusVars, metaVars>>

\* Line 81: the tally message.
TallyMessage(n, total) ==
    "Processed " \o ToDigits(n) \o " of " \o ToDigits(total) \o " S3 events"

\* Lines 78-84: the loop is over; the tally is returned.
DispatchReturn ==
    /\ dp.pc = "loop" /\ dp.i > Len(Records(dp.event))
    /\ dp' = [dp EXCEPT !.pc = "returned",
                        !.result =
                            [kind |-> "return", statusCode |-> 200,
                             body |-> [message |-> TallyMessage(Len(dp.results),
                                                                Len(Records(dp.event))),
                                       results |-> dp.results]]]
    /\ UNCHANGED <<now, env, executions, delivered, statusVars, metaVars>>

DispatchNext ==
    \/ DispatchInvoke
    \/ DispatchRecord
    \/ DispatchReturn

\* The notifications the Change Filter is tried on: one or two for each of its
\* rules (lines 28, 37, 91-104), with keys that come close to a rule without
\* meeting it, an encoded key, and one from another source.
FilterKeys ==
    {"uploads/photo.jpg", "processed/x.png", "results/y.json", "my.processed/x",
     "Processed/x.png", "a/.hidden/x.png", "%2Ehidden", "x.tmp", "x.temp",
     "x.tmp.png", "a/b.DS_Store", "a.Thumbs.db.png", "x.lock", "x.part",
     "x.crdownload", "tmp"}

FilterRecords ==
    {[eventSource |-> "aws:s3", eventName |-> "ObjectCreated:Put", eventTime |-> "t1",
      s3 |-> S3Of("b1", k)] : k \in FilterKeys}
    \cup {[eventSource |-> "aws:s3", eventName |-> n, eventTime |-> "t1",
           s3 |-> S3Of("b1", "uploads/photo.jpg")] :
             n \in {"ObjectCreated", "ObjectRemoved:Delete", "objectcreated:Put"}}
    \cup {[eventSource |-> "aws:s3", s3 |-> S3Of("b1", "uploads/photo.jpg")],
          [eventSource |-> "aws:sns", eventName |-> "ObjectCreated:Put",
           s3 |-> S3Of("b1", "uploads/photo.jpg")],
          [eventName |-> "ObjectCreated:Put", s3 |-> S3Of("b1", "uploads/photo.jpg")]}

\* One batch of at most MaxFilterBatch of these notifications arrives.
FilterInvoke ==
    /\ dp.pc = "idle"
    /\ \E k \in 0..MaxFilterBatch : \E b \in [1..k -> FilterRecords] :
         /\ delivered' = delivered + k
         /\ dp' = [DispatchIdle EXCEPT !.pc = "loop", !.event = [Records |-> b]]
    /\ UNCHANGED <<now, env, executions, statusVars, metaVars>>

FilterNext ==
    \/ FilterInvoke
    \/ DispatchRecord
    \/ DispatchReturn


----------------------------------------------------------------------------
(* Metadata Extractor: updateMetadata.py                                   *)

\* Two Lambda processes, each serving one invocation at a time and keeping its
\* module state (db_config) from one invocation to the next.
MetaProcs == {1, 2}

UpperCase == "ABCDEFGHIJKLMNOPQRSTUVWXYZ"
LowerCase == "abcdefghijklmnopqrstuvwxyz"

\* str.lower()
LowerChar(c) ==
    IF \E i \in 1..26 : SubSeq(UpperCase, i, i) = c
    THEN LET i == CHOOSE i \in 1..26 : SubSeq(UpperCase, i, i) = c
         IN  SubSeq(LowerCase, i, i)
    ELSE c

RECURSIVE Lower(_)
Lower(s) == IF s = "" THEN "" ELSE LowerChar(Head(s)) \o Lower(Tail(s))

\* str.strip(ch): ch removed from both ends.
RECURSIVE LStrip(_, _)
LStrip(s, ch) == IF s # "" /\ Head(s) = ch THEN LStrip(Tail(s), ch) ELSE s

RECURSIVE RStrip(_, _)
RStrip(s, ch) ==
    IF s # "" /\ SubSeq(s, Len(s), Len(s)) = ch
    THEN RStrip(SubSeq(s, 1, Len(s) - 1), ch) ELSE s

Strip(s, ch) == RStrip(LStrip(s, ch), ch)

\* datetime.isoformat() of a time of the model's clock.
IsoFormat(t) == "T" \o ToDigits(t)

\* hashlib.sha256(content).hexdigest(): one digest per content.
Sha256Hex(content) == "sha256:" \o content

\* Line 127 with < for <= (a plausible slip).
max_size_for_download_exclusive == 10 * 1024 * 1024 - 1

\* Line 125.
max_size_for_download == 10 * 1024 * 1024

\* The objects storage may hold: what head_object answers, and the bytes.  One
\* below the threshold, one of exactly the threshold, one above it with no
\* content type.
ObjectVersions ==
    {[ContentType |-> "image/jpeg", ContentLength |-> 5 * 1024 * 1024,
      LastModified |-> 1, ETag |-> "\"e1\"", Body |-> "bytes-1"],
     [ContentType |-> "Application/PDF", ContentLength |-> 10 * 1024 * 1024,
      LastModified |-> 2, ETag |-> "\"e2\"", Body |-> "bytes-2"],
     [ContentLength |-> 50 * 1024 * 1024,
      LastModified |-> 3, ETag |-> "\"abc123\"", Body |-> "bytes-3"]}

MetaLocs == {<<"b1", "uploads/photo.jpg">>, <<"b2", "uploads/video.mp4">>}

\* s3.head_object: the attributes of the object, without its bytes.
HeadObject(store, bucket, key) ==
    Restrict(store[<<bucket, key>>], DOMAIN store[<<bucket, key>>] \ {"Body"})

\* The identifiers an orchestrator hands to the extractor.
GivenAssetIds == {"asset-1-0a1b2c3d"}

\* The events an invocation may receive: a location with an assetId, a
\* location without one, or an event with no bucket.
MetaEvents ==
    {[bucket |-> l[1], key |-> l[2], assetId |-> a] : l \in MetaLocs, a \in GivenAssetIds}
    \cup {[bucket |-> "b1", key |-> "uploads/photo.jpg"]}
    \cup {[key |-> "uploads/photo.jpg"]}

\* Lines 99-105.
generate_asset_id(ms, hex) == "asset_" \o ToDigits(ms) \o "_" \o hex

\* Lines 136-159 without the lower() of line 143 (a plausible slip).
determine_asset_type_case_sensitive(content_type) ==
    IF content_type = "" THEN "other"
    ELSE LET ct == content_type
         IN  IF StartsWith(ct, "image/") THEN "image"
             ELSE IF StartsWith(ct, "video/") THEN "video"
             ELSE IF StartsWith(ct, "audio/") THEN "audio"
             ELSE IF Contains(ct, "pdf") THEN "document"
             ELSE IF StartsWith(ct, "text/") THEN "document"
             ELSE IF \/ Contains(ct, "application/vnd.openxmlformats-officedocument")
                     \/ Contains(ct, "application/msword")
                  THEN "document"
             ELSE "other"

\* Lines 136-159.
determine_asset_type(content_type) ==
    IF content_type = "" THEN "other"
    ELSE LET ct == Lower(content_type)
         IN  IF StartsWith(ct, "image/") THEN "image"
             ELSE IF StartsWith(ct, "video/") THEN "video"
             ELSE IF StartsWith(ct, "audio/") THEN "audio"
             ELSE IF Contains(ct, "pdf") THEN "document"
             ELSE IF StartsWith(ct, "text/") THEN "document"
             ELSE IF \/ Contains(ct, "application/vnd.openxmlformats-officedocument")
                     \/ Contains(ct, "application/msword")
                  THEN "document"
             ELSE "other"

\* Lines 44-55: the metadata of an extraction, from the first head_object's
\* answer, the fingerprint and the clock.
Metadata(asset_id, bucket, key, object_metadata, content_hash, t) ==
    [assetId |-> asset_id, bucket |-> bucket, key |-> key,
     contentType |-> Get(object_metadata, "ContentType", "application/octet-stream"),
     contentLength |-> Get(object_metadata, "ContentLength", 0),
     lastModified |-> IF "LastModified" \in DOMAIN object_metadata
                      THEN IsoFormat(object_metadata.LastModified)
                      ELSE IsoFormat(t),
     etag |-> Strip(Get(object_metadata, "ETag", ""), "\""),
     contentHash |-> content_hash,
     uploadTimestamp |-> IsoFormat(t),
     assetType |-> determine_asset_type(Get(object_metadata, "ContentType", ""))]

\* Lines 210-222 and the column defaults of lines 185-186: the row an INSERT adds.
InsertedRow(metadata, t) ==
    [asset_id |-> metadata.assetId, bucket |-> metadata.bucket,
     key_path |-> metadata.key, content_type |-> metadata.contentType,
     content_length |-> metadata.contentLength,
     last_modified |-> metadata.lastModified, etag |-> metadata.etag,
     content_hash |-> metadata.contentHash,
     upload_timestamp |-> metadata.uploadTimestamp,
     asset_type |-> metadata.assetType, metadata |-> metadata,
     created_at |-> t, updated_at |-> t]

\* Lines 197-207: what ON CONFLICT (asset_id) DO UPDATE SET leaves of a row.
ConflictUpdatedRow(row, metadata, t) ==
    [row EXCEPT !.content_type = metadata.contentType,
                !.content_length = metadata.contentLength,
                !.last_modified = metadata.lastModified,
                !.etag = metadata.etag,
                !.content_hash = metadata.contentHash,
                !.upload_timestamp = metadata.uploadTimestamp,
                !.asset_type = metadata.assetType,
                !.metadata = metadata,
                !.updated_at = t]

\* The statement without its ON CONFLICT clause on a table without its primary
\* key (a plausible slip): every call adds a row.
UpsertAlwaysInserts(rows, metadata, t) == rows \cup {InsertedRow(metadata, t)}

\* Lines 191-225: the INSERT ... ON CONFLICT statement, committed.
Upsert(rows, metadata, t) ==
    IF \E r \in rows : r.asset_id = metadata.assetId
    THEN {IF r.asset_id = metadata.assetId THEN ConflictUpdatedRow(r, metadata, t)
          ELSE r : r \in rows}
    ELSE rows \cup {InsertedRow(metadata, t)}

\* A failed write whose statement stays committed (a plausible slip: no rollback).
StoreFailedKeepsWrite(rows, metadata, t) == Upsert(rows, metadata, t)

\* Lines 228-235: a failed connect, execute or commit; the transaction is
\* rolled back and the connection closed.
StoreFailed(rows, metadata, t) == rows

\* Line 19: db_config = None, as a record so that it compares with a configuration.
NoDbConfig == [none |-> TRUE]

\* fetches: the outcomes of the calls of get_db_config in the process so far.
MetaIdle ==
    [pc |-> "idle", db_config |-> NoDbConfig, fetches |-> <<>>,
     event |-> <<>>, asset_id |-> None,
     object_metadata |-> <<>>, hash_metadata |-> <<>>, downloads |-> 0,
     metadata |-> <<>>, result |-> [kind |-> "none"]]

\* Lines 69-97: the configuration get_db_config builds.
DbConfig ==
    [host |-> "db", port |-> 5432, database |-> "assets", user |-> "u", password |-> "p"]

MetaInit ==
    /\ s3store = [l \in MetaLocs |->
                    IF l[1] = "b1"
                    THEN CHOOSE v \in ObjectVersions : v.Body = "bytes-1"
                    ELSE CHOOSE v \in ObjectVersions : v.Body = "bytes-3"]
    /\ overwrites = 0
    /\ assets = {}
    /\ mx = [p \in MetaProcs |-> MetaIdle]
    /\ extractions = 0

\* Lines 65-67: the exception leaves the handler; its locals are gone, the
\* process keeps its cached configuration.
MetaRaised(s, err) ==
    [MetaIdle EXCEPT !.pc = "failed", !.db_config = s.db_config,
                     !.fetches = s.fetches,
                     !.result = [kind |-> "raise", error |-> err]]

\* The return of a handler that keeps the configuration in a local instead of
\* the module's global (a plausible slip): the process has none afterwards.
MetaReturnedForgetsConfig(s, payload) ==
    [MetaIdle EXCEPT !.pc = "done", !.fetches = s.fetches,
                     !.result = [kind |-> "return", payload |-> payload]]

\* Lines 61-63: the handler returns the event with assetId and metadata added.
MetaReturned(s, payload) ==
    [MetaIdle EXCEPT !.pc = "done", !.db_config = s.db_config,
                     !.fetches = s.fetches,
                     !.result = [kind |-> "return", payload |-> payload]]

\* Lines 25-38: an invocation arrives at process p.  The configuration is
\* fetched when the process holds none; the event is read; the first
\* head_object is made.  Processes are numbered in the order they start.
MetaInvoke(p) ==
    /\ mx[p].pc \in {"idle", "done", "failed"}
    /\ \A q \in MetaProcs : q < p => mx[q].pc # "idle"
    /\ extractions < MaxExtractions
    /\ extractions' = extractions + 1
    /\ \E event \in MetaEvents,
          ssm \in IF mx[p].db_config = NoDbConfig THEN {"ok", "ClientError"} ELSE {"cached"},
          head \in {"ok", "ClientError"} :
       \E hex \in IF "assetId" \in DOMAIN event THEN {"unused"} ELSE HexSuffixes :
         LET fetched == IF ssm = "cached" THEN mx[p].fetches
                        ELSE Append(mx[p].fetches, ssm)
             s0 == [MetaIdle EXCEPT !.db_config = mx[p].db_config,
                                    !.fetches = fetched, !.event = event]
             s1 == IF ssm = "cached" THEN s0 ELSE [s0 EXCEPT !.db_config = DbConfig]
         IN  IF ssm = "ClientError"
             THEN mx' = [mx EXCEPT ![p] = MetaRaised(s0, "ssm:" \o ssm)]
             ELSE IF ~({"bucket", "key"} \subseteq DOMAIN event)
             THEN mx' = [mx EXCEPT ![p] = MetaRaised(s1, "KeyError")]
             ELSE LET asset_id == Get(event, "assetId", generate_asset_id(now, hex))
                      s2 == [s1 EXCEPT !.asset_id = asset_id]
                  IN  IF head # "ok"
                      THEN mx' = [mx EXCEPT ![p] = MetaRaised(s2, "head_object:" \o head)]
                      ELSE mx' = [mx EXCEPT ![p] =
                                    [s2 EXCEPT !.pc = "hash_head",
                                               !.object_metadata =
                                                   HeadObject(s3store, event.bucket,
                                                              event.key)]]
    /\ UNCHANGED <<now, env, s3store, overwrites, assets, statusVars, dispatchVars>>

\* The invocation with its metadata prepared (lines 44-55), about to store it.
Prepared(s, content_hash) ==
    [s EXCEPT !.pc = "store",
              !.metadata = Metadata(s.asset_id, s.event.bucket, s.event.key,
                                    s.object_metadata, content_hash, now)]

\* Lines 122-134: generate_content_hash's own head_object; above the threshold
\* the fingerprint is the entity tag, otherwise the object is downloaded next.
MetaHashHead(p) ==
    /\ mx[p].pc = "hash_head"
    /\ \E head \in {"ok", "ClientError"} :
         LET s == mx[p]
             metadata == HeadObject(s3store, s.event.bucket, s.event.key)
         IN  IF head # "ok"
             THEN mx' = [mx EXCEPT ![p] = MetaRaised(s, "head_object:" \o head)]
             ELSE IF metadata.ContentLength <= max_size_for_download
             THEN mx' = [mx EXCEPT ![p] = [s EXCEPT !.pc = "hash_get",
                                                    !.hash_metadata = metadata]]
             ELSE mx' = [mx EXCEPT ![p] =
                           Prepared([s EXCEPT !.hash_metadata = metadata],
                                    Strip(Get(metadata, "ETag", ""), "\""))]
    /\ UNCHANGED <<now, env, s3store, overwrites, assets, extractions,
                   statusVars, dispatchVars>>

\* Lines 128-130: the download, and the hash of the bytes.
MetaHashGet(p) ==
    /\ mx[p].pc = "hash_get"
    /\ \E get \in {"ok", "ClientError"} :
         LET s == [mx[p] EXCEPT !.downloads = @ + 1]
             content == s3store[<<s.event.bucket, s.event.key>>].Body
         IN  IF get # "ok"
             THEN mx' = [mx EXCEPT ![p] = MetaRaised(s, "get_object:" \o get)]
             ELSE mx' = [mx EXCEPT ![p] = Prepared(s, Sha256Hex(content))]
    /\ UNCHANGED <<now, env, s3store, overwrites, assets, extractions,
                   statusVars, dispatchVars>>

\* dict(event, assetId=..., metadata=...): lines 61-63.
Augmented(event, asset_id, metadata) ==
    [k \in DOMAIN event \cup {"assetId", "metadata"} |->
        IF k = "assetId" THEN asset_id
        ELSE IF k = "metadata" THEN metadata ELSE event[k]]

\* Lines 57-67 and 161-235: store_metadata_in_postgres, then the return.  The
\* database stamps the row with its own clock.
MetaStore(p) ==
    /\ mx[p].pc = "store"
    /\ \E db \in {"ok", "DatabaseError"}, t \in ClockReadings :
         LET s == mx[p]
         IN  /\ now' = t
             /\ IF db # "ok"
                THEN /\ assets' = StoreFailed(assets, s.metadata, t)
                     /\ mx' = [mx EXCEPT ![p] = MetaRaised(s, db)]
                ELSE /\ assets' = Upsert(assets, s.metadata, t)
                     /\ mx' = [mx EXCEPT ![p] =
                                 MetaReturned(s, Augmented(s.event, s.asset_id,
                                                           s.metadata))]
    /\ UNCHANGED <<env, s3store, overwrites, extractions, statusVars, dispatchVars>>

\* The upload that replaces an object: the small one by the one of exactly the
\* threshold, that by the large one, the large one by the small one.
NextVersion(v) ==
    CHOOSE w \in ObjectVersions : w.LastModified = (v.LastModified % 3) + 1

\* The location whose object other uploads replace while extractions run.
OverwrittenLoc == <<"b1", "uploads/photo.jpg">>

\* The object at a location is overwritten in storage by another upload.
MetaOverwrite ==
    /\ overwrites < MaxOverwrites
    /\ overwrites' = overwrites + 1
    /\ s3store' = [s3store EXCEPT
                      ![OverwrittenLoc] = NextVersion(s3store[OverwrittenLoc])]
    /\ UNCHANGED <<now, env, assets, mx, extractions, statusVars, dispatchVars>>

MetaNext ==
    \/ \E p \in MetaProcs :
         \/ MetaInvoke(p)
         \/ MetaHashHead(p)
         \/ MetaHashGet(p)
         \/ MetaStore(p)
    \/ MetaOverwrite

\* The content types the classification is tried on: one or two for each rule,
\* in mixed case, some that meet two rules, some that meet none.
ClassifyContentTypes ==
    {"image/png", "IMAGE/JPEG", "image/x-pdf", "video/mp4", "Video/PDF",
     "audio/mpeg", "AUDIO/ogg", "application/pdf", "Application/PDF",
     "application/x-pdf", "text/plain", "TEXT/html", "text/pdf",
     "application/msword",
     "application/vnd.openxmlformats-officedocument.wordprocessingml.document",
     "APPLICATION/MSWORD", "application/vnd.ms-excel", "application/json",
     "application/octet-stream", "ximage/png", " image/png", "image", ""}

\* The objects of these content types, and one that has none.
ClassifyObjects ==
    LET v == CHOOSE v \in ObjectVersions : v.Body = "bytes-1"
    IN  {[v EXCEPT !.ContentType = ct] : ct \in ClassifyContentTypes}
        \cup {Restrict(v, DOMAIN v \ {"ContentType"})}

\* Storage as the extractions of these objects find it: the first location
\* holds any of them.
ClassifyInit ==
    /\ s3store \in
          {[l \in MetaLocs |->
               IF l[1] = "b1" THEN o
               ELSE CHOOSE v \in ObjectVersions : v.Body = "bytes-3"] :
             o \in ClassifyObjects}
    /\ overwrites = 0
    /\ assets = {}
    /\ mx = [p \in MetaProcs |-> MetaIdle]
    /\ extractions = 0

\* One process serves the extractions, one after the other.
ClassifyNext ==
    \E p \in {1} :
        \/ MetaInvoke(p)
        \/ MetaHashHead(p)
        \/ MetaHashGet(p)
        \/ MetaStore(p)

----------------------------------------------------------------------------
(* Specifications.                                                         *)

Init ==
    /\ now = 1
    /\ env \in SUBSET EnvNames
    /\ StatusInit
    /\ DispatchInit
    /\ MetaInit

Next == StatusNext \/ DispatchNext \/ MetaNext

Spec == Init /\ [][Next]_vars

\* The deployment of one handler: the other handlers' variables are set.
InitStatus == Init /\ (EnvNames \ {"PROCESSING_STATUS_TABLE"}) \subseteq env

InitDispatch == Init /\ (EnvNames \ {"STEP_FUNCTION_ARN"}) \subseteq env

InitMeta == Init /\ env = EnvNames

\* The Dispatcher deployed with its state machine named.
InitFilter == Init /\ "STEP_FUNCTION_ARN" \in env /\ "PROCESSING_STATUS_TABLE" \in env

\* The Status Tracker alone, invocations interleaved.
SpecStatus == InitStatus /\ [][StatusNext]_vars

\* The Status Tracker alone, invocations one after the other.
SpecStatusSeq == InitStatus /\ [][StatusSeqNext]_vars

\* The Dispatcher alone, batch after batch against one orchestrator.
SpecDispatch == InitDispatch /\ [][DispatchNext]_vars

\* The Dispatcher on one batch that exercises the Change Filter.
SpecFilter == InitFilter /\ [][FilterNext]_vars

\* The Metadata Extractor in one process, on objects of many content types.
InitClassify ==
    /\ now = 1
    /\ env = EnvNames
    /\ StatusInit
    /\ DispatchInit
    /\ ClassifyInit

SpecClassify == InitClassify /\ [][ClassifyNext]_vars

\* The Metadata Extractor alone: its processes interleaved, storage changing.
SpecMeta == InitMeta /\ [][MetaNext]_vars

----------------------------------------------------------------------------
(* Status Tracker: the claims.                                             *)

HasFailedCall(s) == \E k \in 1..Len(s.calls) : s.calls[k].outcome # "ok"

\* The step in which invocation p writes and returns.
Wrote(p) == st[p].pc = "write" /\ st'[p].pc = "done"

\* C1: in runs where no store call fails, whenever an invocation writes the
\* record of its key, the key holds exactly one record afterwards and a
\* createdAt the key already held is not replaced by a later one (so the record
\* keeps the earliest createdAt ever written), for any interleaving of
\* invocations.
C1_ConcurrentWritesKeepEarliestCreatedAt ==
    [][\A p \in StatusInvocations :
          (Wrote(p) /\ \A q \in StatusInvocations : ~HasFailedCall(st'[q])) =>
             /\ Cardinality(ItemsOf(table', st[p].asset_id, st[p].feature_type)) = 1
             /\ \A i \in ItemsOf(table, st[p].asset_id, st[p].feature_type) :
                  \A j \in ItemsOf(table', st[p].asset_id, st[p].feature_type) :
                     "createdAt" \in DOMAIN j /\ j.createdAt <= i.createdAt]_vars

\* C2: once a record exists for a key, every later state holds a record for the
\* key with the same createdAt, over any sequence of invocations (the ones whose
\* existence read fails included).
C2_CreatedAtNeverChanges ==
    [][\A i \in table :
          \E j \in table' :
             /\ SameKey(j, i.assetId, i.featureType)
             /\ ("createdAt" \in DOMAIN i) =>
                    ("createdAt" \in DOMAIN j /\ j.createdAt = i.createdAt)]_vars

\* C7: an invocation whose event lacks assetId, featureType or status has
\* raised the validation error, has issued no store call and holds no success
\* payload.
C7_ValidationFailsBeforeAnyStoreCall ==
    \A p \in StatusInvocations :
        (st[p].pc # "idle" /\ ~({"assetId", "featureType", "status"} \subseteq DOMAIN st[p].event)) =>
            /\ st[p].pc = "failed"
            /\ st[p].result = [kind |-> "raise", error |-> "ValueError"]
            /\ st[p].calls = <<>>

\* C7's case: an invalid event arrived once the table held a record.
C7_Witness ==
    \E p \in StatusInvocations :
        /\ st[p].pc = "failed"
        /\ "status" \notin DOMAIN st[p].event
        /\ st[p].result.kind = "raise"
        /\ table # {}

\* C8: an invocation in which a store call failed has not returned a success
\* payload and has issued no store call after the failed one.
C8_StoreFailurePropagates ==
    \A p \in StatusInvocations :
        \A k \in 1..Len(st[p].calls) :
            st[p].calls[k].outcome # "ok" =>
                /\ st[p].result.kind # "return"
                /\ k = Len(st[p].calls)

\* C12: with invocations one after the other, the invocation that writes and
\* returns leaves one record at its key: for a key that held none, the record
\* of the call with createdAt = updatedAt = the call's timestamp; for a key that
\* held one, that record with status, statusDetails and updatedAt of the call
\* and its createdAt kept; the payload returned equals the record stored, and
\* its updatedAt is not before its createdAt.
C12_SequentialCallsCreateThenUpdate ==
    [][\A p \in StatusInvocations :
          Wrote(p) =>
            LET s == st[p]
                before == ItemsOf(table, s.asset_id, s.feature_type)
                after == ItemsOf(table', s.asset_id, s.feature_type)
                payload == st'[p].result.payload
            IN  /\ Cardinality(after) = 1
                /\ \A j \in after :
                     /\ j = payload
                     /\ j.status = s.status
                     /\ j.statusDetails = s.status_details
                     /\ j.updatedAt = s.timestamp
                     /\ j.updatedAt >= j.createdAt
                     /\ before = {} => j.createdAt = s.timestamp
                     /\ \A i \in before : j.createdAt = i.createdAt]_vars

\* C13: a write to a key never leaves an updatedAt earlier than the one the
\* key held, for any interleaving of invocations.
C13_UpdatedAtNeverDecreases ==
    [][\A i \in table :
          \A j \in ItemsOf(table', i.assetId, i.featureType) :
             j.updatedAt >= i.updatedAt]_vars

\* C19: a step of an invocation leaves every record of a key other than the
\* invocation's own as it was, whether the invocation goes on, returns or
\* fails, and leaves a record at every key that held one.
C19_OtherKeysUntouched ==
    [][\A i \in table :
          /\ \E j \in table' : SameKey(j, i.assetId, i.featureType)
          /\ \A p \in StatusInvocations :
                (st'[p] # st[p]
                   /\ ~SameKey(i, st'[p].asset_id, st'[p].feature_type)) =>
                   i \in table']_vars

\* C19's case: the two features of one asset each have their record, written
\* by two invocations.
C19_Witness ==
    /\ \A p \in StatusInvocations : st[p].pc = "done"
    /\ \E i, j \in table :
         /\ i.assetId = j.assetId
         /\ i.featureType # j.featureType

----------------------------------------------------------------------------
(* Dispatcher: the claims.                                                 *)

\* The Change Filter's decision for a record that carries the s3 fields.
Accepted(record) ==
    /\ IsObjectCreated(record)
    /\ HasS3Fields(record)
    /\ ~SkippedByKey(UnquotePlus(record.s3.object.key))

\* C3: against an orchestrator that starts no second execution for a name it
\* holds, the executions started for one notification (one bucket, key and
\* event time), however often it was delivered, are at most one.
C3_RedeliveryStartsAtMostOneExecution ==
    \A e1, e2 \in executions :
        (/\ e1.input.bucket = e2.input.bucket
         /\ e1.input.key = e2.input.key
         /\ e1.input.eventTime = e2.input.eventTime) => e1 = e2

\* C4: the Dispatcher handler never ends by raising, whatever the batch holds.
C4_DispatcherNeverRaises == dp.result.kind # "raise"

\* The accepted list the log of a batch stands for: the records whose request
\* succeeded, in batch order, each with its identifier and handle.
RECURSIVE AcceptedList(_, _, _)
AcceptedList(log, batch, k) ==
    IF k > Len(log) THEN <<>>
    ELSE IF log[k].outcome = "started"
         THEN <<[assetId |-> log[k].assetId, executionArn |-> log[k].executionArn,
                 bucket |-> batch[k].s3.bucket.name,
                 key |-> UnquotePlus(batch[k].s3.object.key)]>>
              \o AcceptedList(log, batch, k + 1)
         ELSE AcceptedList(log, batch, k + 1)

\* C10: a failed execution request does not end the loop (the handler that has
\* returned has gone through every record of the batch); a record is skipped
\* exactly when the filter rejects it; every record logged as started has its
\* execution at the orchestrator under its own token, with the handle logged;
\* and the returned body lists exactly the started records in batch order, with
\* the tally "<length of the list> of <batch size>".
C10_FailureIsolationAndTally ==
    LET batch == Records(dp.event)
    IN  /\ dp.pc = "loop" => dp.i = Len(dp.log) + 1
        /\ \A k \in 1..Len(dp.log) :
             /\ dp.log[k].outcome = "skipped" <=> ~Accepted(batch[k])
             /\ dp.log[k].outcome = "started" =>
                  \E e \in executions :
                     /\ e.name = ExecutionName(dp.log[k].assetId)
                     /\ dp.log[k].executionArn = ExecutionArn(e.name)
                     /\ e.input.bucket = batch[k].s3.bucket.name
                     /\ e.input.key = UnquotePlus(batch[k].s3.object.key)
        /\ dp.pc = "returned" =>
             /\ Len(dp.log) = Len(batch)
             /\ dp.result.body.results = AcceptedList(dp.log, batch, 1)
             /\ dp.result.body.message =
                    TallyMessage(Len(AcceptedList(dp.log, batch, 1)), Len(batch))

\* C10's case: a batch returned in which a request failed, a later record was
\* started and another was skipped.
C10_Witness ==
    /\ dp.pc = "returned"
    /\ \E k, m, n \in 1..Len(dp.log) :
         /\ k < m
         /\ dp.log[k].outcome = "failed"
         /\ dp.log[m].outcome = "started"
         /\ dp.log[n].outcome = "skipped"
    /\ dp.result.body.message = "Processed 1 of 3 S3 events"

\* A log entry of a record for which start_execution was called: it started an
\* execution, or the orchestrator refused or failed (the lookup of
\* STEP_FUNCTION_ARN fails before the call).
Requested(entry) ==
    \/ entry.outcome = "started"
    \/ entry.outcome = "failed" /\ entry.error # "KeyError"

\* C11: in a deployment that names its state machine, every execution's token
\* is its payload's assetId followed by "-processing"; a record the handler has
\* gone through was requested exactly when the filter accepts it, and a started
\* one with the record's bucket and decoded key; and once the handler has
\* ended, every accepted record of the batch has had its request.
C11_OneRequestPerAcceptedNotification ==
    LET batch == Records(dp.event)
    IN  "STEP_FUNCTION_ARN" \in env =>
          /\ \A e \in executions : e.name = e.input.assetId \o "-processing"
          /\ \A k \in 1..Len(dp.log) :
               /\ Requested(dp.log[k]) <=> Accepted(batch[k])
               /\ dp.log[k].outcome = "started" =>
                    \E e \in executions :
                       /\ e.input.assetId = dp.log[k].assetId
                       /\ e.input.bucket = batch[k].s3.bucket.name
                       /\ e.input.key = UnquotePlus(batch[k].s3.object.key)
          /\ dp.pc \in {"returned", "raised"} =>
               \A k \in 1..Len(batch) :
                  Accepted(batch[k]) => k <= Len(dp.log) /\ Requested(dp.log[k])

\* The decision as the rules state it, on a source, an event type and a key.
RuleAccepts(source, eventType, key) ==
    /\ source = "aws:s3"
    /\ StartsWith(eventType, "ObjectCreated")
    /\ ~StartsWith(key, "processed/") /\ ~StartsWith(key, "results/")
    /\ LET segments == Split(key, "/")
       IN  \A k \in 1..Len(segments) : ~StartsWith(segments[k], ".")
    /\ \A x \in {".tmp", ".temp", ".DS_Store", ".lock", ".part", ".crdownload"} :
          ~EndsWith(key, x)
    /\ ~Contains(key, ".Thumbs.db")

\* C15: whatever the records before it in the batch, the record the handler
\* goes through in a step is skipped exactly when the rules reject its (source,
\* event type, decoded key): the decision is that function of the triple, the
\* same for the same triple wherever it stands.
C15_FilterDecisionIsFunctionOfTriple ==
    [][(dp.pc = "loop" /\ dp'.pc = "loop" /\ dp'.i = dp.i + 1) =>
          LET record == Records(dp.event)[dp.i]
          IN  /\ Len(dp'.log) = dp.i
              /\ (dp'.log[dp.i].outcome = "skipped") <=>
                    ~RuleAccepts(Get(record, "eventSource", None),
                                 Get(record, "eventName", ""),
                                 UnquotePlus(record.s3.object.key))]_vars

\* C15's case: a batch whose first record was accepted and whose second, with a
\* key that contains .Thumbs.db in the middle of its name, was rejected.
C15_Witness ==
    /\ dp.pc = "returned"
    /\ Len(dp.log) = 2
    /\ dp.log[1].outcome # "skipped"
    /\ dp.log[2].outcome = "skipped"
    /\ Records(dp.event)[2].s3.object.key = "a.Thumbs.db.png"

----------------------------------------------------------------------------
(* Metadata Extractor: the claims.                                         *)

\* The step in which process p commits its upsert and returns.
Stored(p) == mx[p].pc = "store" /\ mx'[p].pc = "done"

RowsOf(rows, asset_id) == {r \in rows : r.asset_id = asset_id}

\* The columns the extraction derives from the object, against its metadata.
DerivedColumnsMatch(r, m) ==
    /\ r.content_type = m.contentType
    /\ r.content_length = m.contentLength
    /\ r.last_modified = m.lastModified
    /\ r.etag = m.etag
    /\ r.content_hash = m.contentHash
    /\ r.upload_timestamp = m.uploadTimestamp
    /\ r.asset_type = m.assetType

\* C5: the table never holds two rows with one asset_id; and when an extraction
\* commits, the one row of its assetId carries the values this extraction
\* derived and the commit's time as updated_at, its created_at is the one the
\* row had before (the commit's time if there was no row), and with the same
\* input as the extraction before it (same bucket and key) the row equals what
\* this extraction would have inserted, created_at apart.
C5_UpsertIdempotentPerAssetId ==
    [][/\ \A r1, r2 \in assets' : r1.asset_id = r2.asset_id => r1 = r2
       /\ \A p \in MetaProcs :
            Stored(p) =>
              LET m == mx[p].metadata
                  before == RowsOf(assets, m.assetId)
                  after == RowsOf(assets', m.assetId)
              IN  /\ Cardinality(after) = 1
                  /\ \A r \in after :
                       /\ DerivedColumnsMatch(r, m)
                       /\ r.metadata = m
                       /\ r.updated_at = now'
                       /\ \A o \in before :
                            /\ r.created_at = o.created_at
                            /\ (o.bucket = m.bucket /\ o.key_path = m.key) =>
                                 r = [InsertedRow(m, now') EXCEPT
                                         !.created_at = o.created_at]
                       /\ before = {} => r = InsertedRow(m, now')]_vars

\* C5's case: the same input applied twice, at two times: one row, created at
\* the first and updated at the second.
C5_Witness ==
    /\ \E p, q \in MetaProcs :
         /\ p # q
         /\ mx[p].pc = "done" /\ mx[q].pc = "done"
         /\ mx[p].result.payload.assetId = mx[q].result.payload.assetId
         /\ mx[p].result.payload.bucket = mx[q].result.payload.bucket
         /\ mx[p].result.payload.key = mx[q].result.payload.key
    /\ \E r \in assets : r.created_at < r.updated_at
    /\ Cardinality(assets) = 1

\* C6: every column of a stored row other than asset_id and created_at equals
\* the copy of the field in the row's metadata blob (the values of the most
\* recent extraction for the identifier).
C6_EveryDerivedColumnOverwritten ==
    \A r \in assets :
        /\ r.bucket = r.metadata.bucket
        /\ r.key_path = r.metadata.key
        /\ DerivedColumnsMatch(r, r.metadata)

\* C9: a step of an invocation that does not end in its return leaves the rows
\* of the table as they were, and an invocation that failed has raised its
\* error to the caller.
C9_FailedExtractionWritesNothing ==
    [][\A p \in MetaProcs :
          /\ (mx'[p] # mx[p] /\ mx'[p].pc # "done") => assets' = assets
          /\ mx'[p].pc = "failed" => mx'[p].result.kind = "raise"]_vars

\* C9's case: a database write failed while the table held a row.
C9_Witness ==
    /\ \E p \in MetaProcs :
         /\ mx[p].pc = "failed"
         /\ mx[p].result = [kind |-> "raise", error |-> "DatabaseError"]
    /\ assets # {}

\* Every character of s is one of the characters of alphabet.
AllIn(s, alphabet) ==
    \A i \in 1..Len(s) : \E j \in 1..Len(alphabet) :
        SubSeq(s, i, i) = SubSeq(alphabet, j, j)

\* asset-<digits>-<8 hex chars>
WellFormedAssetId(id) ==
    LET parts == Split(id, "-")
    IN  /\ Len(parts) = 3
        /\ parts[1] = "asset"
        /\ parts[2] # "" /\ AllIn(parts[2], "0123456789")
        /\ Len(parts[3]) = 8 /\ AllIn(parts[3], "0123456789abcdef")

\* C14: the identifier of every execution the Dispatcher requested and the
\* identifier an extraction minted for an event without assetId have the form
\* asset-<digits>-<8 hex chars>; an extraction whose event carries an assetId
\* works under that identifier, and every row is keyed by the assetId of its
\* metadata.
C14_MintedIdentifiersWellFormed ==
    /\ \A e \in executions : WellFormedAssetId(e.input.assetId)
    /\ \A p \in MetaProcs :
         mx[p].asset_id # None =>
            IF "assetId" \in DOMAIN mx[p].event
            THEN mx[p].asset_id = mx[p].event.assetId
            ELSE WellFormedAssetId(mx[p].asset_id)
    /\ \A r \in assets : r.asset_id = r.metadata.assetId

\* The step in which process p gets its fingerprint and prepares its metadata.
Fingerprinted(p) == mx[p].pc \in {"hash_head", "hash_get"} /\ mx'[p].pc = "store"

\* C16: when an extraction gets its fingerprint, if the content length the
\* fingerprint step read is at most 10 MiB, the object was downloaded exactly
\* once and the fingerprint is the hash of the bytes downloaded; if it is more,
\* nothing was downloaded and the fingerprint is the entity tag without its
\* quotes.  A download never follows a length above the threshold.
C16_FingerprintSelectionBySize ==
    [][\A p \in MetaProcs :
          /\ Fingerprinted(p) =>
               LET s == mx'[p]
                   object == s3store[<<s.event.bucket, s.event.key>>]
               IN  IF s.hash_metadata.ContentLength <= 10 * 1024 * 1024
                   THEN /\ mx[p].pc = "hash_get"
                        /\ s.downloads = 1
                        /\ s.metadata.contentHash = Sha256Hex(object.Body)
                   ELSE /\ mx[p].pc = "hash_head"
                        /\ s.downloads = 0
                        /\ s.metadata.contentHash =
                              Strip(s.hash_metadata.ETag, "\"")
          /\ mx'[p].pc = "hash_get" =>
               mx'[p].hash_metadata.ContentLength <= 10 * 1024 * 1024]_vars

\* C16's case: one extraction has downloaded an object of exactly 10 MiB and
\* another has taken the entity tag of one of 50 MiB.
C16_Witness ==
    \E p, q \in MetaProcs :
        /\ mx[p].pc = "store"
        /\ mx[p].hash_metadata.ContentLength = 10 * 1024 * 1024
        /\ mx[p].downloads = 1
        /\ mx[p].metadata.contentHash = "sha256:bytes-2"
        /\ mx[q].pc = "store"
        /\ mx[q].hash_metadata.ContentLength = 50 * 1024 * 1024
        /\ mx[q].downloads = 0
        /\ mx[q].metadata.contentHash = "abc123"

\* The rule table as the claim gives it: rule k applies to a lower-cased
\* content type; the last rule applies to everything.
RuleApplies(k, ct) ==
    CASE k = 1 -> StartsWith(ct, "image/")
      [] k = 2 -> StartsWith(ct, "video/")
      [] k = 3 -> StartsWith(ct, "audio/")
      [] k = 4 -> Contains(ct, "pdf")
      [] k = 5 -> StartsWith(ct, "text/")
      [] k = 6 -> \/ Contains(ct, "application/vnd.openxmlformats-officedocument")
                  \/ Contains(ct, "application/msword")
      [] OTHER -> TRUE

RuleResults == <<"image", "video", "audio", "document", "document", "document", "other">>

\* The result of the earliest rule that applies.
FirstMatch(content_type) ==
    LET ct == Lower(content_type)
        k == CHOOSE k \in 1..Len(RuleResults) :
                /\ RuleApplies(k, ct)
                /\ \A j \in 1..(k - 1) : ~RuleApplies(j, ct)
    IN  RuleResults[k]

\* C17: the asset type of every extraction's metadata is the result of the
\* earliest rule of the table that applies to the object's content type in
\* lower case ("other" when the object has no content type or none applies):
\* the classification is total, first match wins, case does not matter.
C17_ClassificationFirstMatchWins ==
    \A p \in MetaProcs :
        mx[p].pc = "store" =>
            /\ mx[p].metadata.assetType \in {"image", "video", "audio", "document", "other"}
            /\ mx[p].metadata.assetType =
                  FirstMatch(Get(mx[p].object_metadata, "ContentType", ""))

\* C17's case: an object whose content type, in mixed case, is a video type
\* that also contains pdf has been classified, as a video.
C17_Witness ==
    \E p \in MetaProcs :
        /\ mx[p].pc = "store"
        /\ Get(mx[p].object_metadata, "ContentType", "") = "Video/PDF"
        /\ mx[p].metadata.assetType = "video"

\* The positions of the successful fetches among the fetches of a process.
SuccessfulFetches(s) == {k \in 1..Len(s.fetches) : s.fetches[k] = "ok"}

\* C18: in every process, a step that fetches the configuration starts from an
\* unset cache and makes one fetch; a cache that is set is never replaced nor
\* unset; the cache is set exactly when a fetch has succeeded, so a failed
\* fetch leaves it unset and the next invocation fetches again; no process
\* has fetched successfully twice; and an invocation about to open its
\* database connection holds a configuration.
C18_ConfigFetchedLazilyAtMostOnce ==
    [][\A p \in MetaProcs :
          /\ mx'[p].fetches # mx[p].fetches =>
                /\ mx[p].db_config = NoDbConfig
                /\ \E outcome \in {"ok", "ClientError"} :
                      mx'[p].fetches = Append(mx[p].fetches, outcome)
          /\ (mx[p].db_config = NoDbConfig /\ mx[p].pc = "failed"
                /\ mx'[p] # mx[p]) =>
                Len(mx'[p].fetches) = Len(mx[p].fetches) + 1
          /\ mx[p].db_config # NoDbConfig => mx'[p].db_config = mx[p].db_config
          /\ mx'[p].db_config # NoDbConfig <=> SuccessfulFetches(mx'[p]) # {}
          /\ Cardinality(SuccessfulFetches(mx'[p])) <= 1
          /\ mx'[p].pc = "store" => mx'[p].db_config # NoDbConfig]_vars

\* C18's case: a process that fetched its configuration in one invocation is
\* about to open a connection in its next, without a second fetch.
C18_Witness ==
    \E p \in MetaProcs :
        /\ mx[p].pc = "store"
        /\ mx[p].fetches = <<"ok">>
        /\ extractions = 2
        /\ \A q \in MetaProcs \ {p} : mx[q].pc = "idle"

\* The fingerprint of a version of an object: the hash of its bytes up to the
\* threshold, its entity tag without quotes above it.
FingerprintOf(v) ==
    IF v.ContentLength <= 10 * 1024 * 1024 THEN Sha256Hex(v.Body)
    ELSE Strip(v.ETag, "\"")

\* C20: the content length, the entity tag and the fingerprint of every stored
\* row are those of one version of the object, also when the object is
\* overwritten while the extraction runs.
C20_RecordDescribesOneVersion ==
    \A r \in assets :
        \E v \in ObjectVersions :
            /\ r.content_length = v.ContentLength
            /\ r.etag = Strip(v.ETag, "\"")
            /\ r.content_hash = FingerprintOf(v)

====
